---- MODULE Spec2Model ----
(***************************************************************************)
(* A model of scripts/bitcoin/collect_bitcoin_addresses_db.py: the         *)
(* direct-access collector (index scan, block-file scan, reconciliation,   *)
(* output).  Bytes are integers 0..255, byte strings are sequences, text   *)
(* strings are sequences of character codes, "" is the empty sequence.     *)
(* A second part models backend/game/views.py: the daily challenge and     *)
(* the guess endpoint.                                                     *)
(***************************************************************************)
EXTENDS Integers, Sequences, FiniteSets, TLC

VARIABLES
    pc,               \* position of main()
    env,              \* which directories exist on disk
    interrupted,      \* a KeyboardInterrupt was delivered
    log,              \* the (key, value) pairs the index iterator has yielded
    addresses,        \* get_all_utxos: address -> BitcoinAddress
    block_files,      \* scan_spending_history: indices of the files found
    fileIdx,          \* position of "for file_path in block_files"
    blocks_processed, \* scan_spending_history counter
    spent_addresses,  \* scan_spending_history result set
    address_pubkeys,  \* scan_spending_history result map
    fileState,        \* locals of the running parse_block_file
    never_spent,      \* collect_addresses result
    output,           \* the document written by save_to_file, or NoOutput
    hist,             \* history of the block scan (observation only)
    call,             \* a function called on its own: name, argument, result
    today,            \* game: what datetime.date.today() returns
    challenges,       \* game: the committed Challenge rows, id -> row
    sentinel,         \* game: the ChallengeSentinel row and who holds its lock
    row_lock,         \* game: Challenge rows locked by select_for_update
    requests,         \* game: the daily-challenge requests and their locals
    activated,        \* game: committed activations per challenge (observation)
    guess_rows,       \* game: number of Guess rows per challenge
    session,          \* game: request.session["guesses"] of the client
    response          \* game: the last response of the guess endpoint

\* the variables of a run of main()
runVars == <<pc, env, interrupted, log, addresses, block_files, fileIdx,
             blocks_processed, spent_addresses, address_pubkeys, fileState,
             never_spent, output, hist>>

\* the variables of the daily-challenge view
dailyVars == <<today, challenges, sentinel, row_lock, requests, activated>>

\* the variables of the guess endpoint
guessVars == <<guess_rows, session, response>>

gameVars == <<dailyVars, guessVars>>

\* the variables a run of main() leaves alone
sideVars == <<call, gameVars>>

vars == <<runVars, sideVars>>

----------------------------------------------------------------------------
(* Bounds of the model *)

\* index entries iterated at most
MaxIndex == 2
\* block frames one file holds at most
MaxFrames == 2
\* stands for range(1000), the number of file names probed
MaxFiles == 2
\* stands for MAX_BLOCKS = 250000, scaled so that the limit is reached
MAX_BLOCKS == 2

----------------------------------------------------------------------------
(* Byte strings *)

Min(a, b) == IF a < b THEN a ELSE b

Rep(b, n) == [i \in 1..n |-> b]

Last(s) == s[Len(s)]

\* Python s[a:b] for 0 <= a, with clamping and an empty result when b <= a
Slice(s, a, b) ==
    LET lo == Min(a, Len(s))
        hi == Min(b, Len(s))
    IN  IF hi <= lo THEN <<>> ELSE [i \in 1..(hi - lo) |-> s[lo + i]]

RECURSIVE Pow2(_)
Pow2(n) == IF n = 0 THEN 1 ELSE 2 * Pow2(n - 1)

\* struct.unpack('<H' / '<I' / '<Q'): little-endian value of a byte string
RECURSIVE LittleEndian(_)
LittleEndian(b) ==
    IF Len(b) = 0 THEN 0 ELSE b[1] + 256 * LittleEndian(Tail(b))

\* bytes.hex(): two hexadecimal digits (0..15) per byte
Hex(b) == [i \in 1..(2 * Len(b)) |->
              IF i % 2 = 1 THEN b[(i + 1) \div 2] \div 16 ELSE b[i \div 2] % 16]

\* bytes.fromhex(): fails (ValueError) on an odd length or a non-hex character
FromHexOk(h) == Len(h) % 2 = 0 /\ \A i \in 1..Len(h) : h[i] \in 0..15

FromHex(h) == [i \in 1..(Len(h) \div 2) |-> 16 * h[2 * i - 1] + h[2 * i]]

----------------------------------------------------------------------------
(* Hashing and Base58.  The digests are uninterpreted in the code           *)
(* (hashlib, base58); they are modelled as fixed deterministic functions   *)
(* of the bytes, injective on the inputs of the model.                     *)

Digest(b) ==
    IF Len(b) = 0 THEN 7
    ELSE (3 * b[1] + 5 * b[Len(b)] + 11 * b[(Len(b) + 1) \div 2] + Len(b)) % 251

\* hashlib.sha256(hashlib.sha256(x).digest()).digest()[:4]
Checksum4(b) == LET d == Digest(b) IN <<d, (d + 1) % 256, (d + 2) % 256, (d + 3) % 256>>

\* hashlib.new('ripemd160', hashlib.sha256(x).digest()).digest()
Hash160(b) == LET d == Digest(b) IN [i \in 1..20 |-> (d + i) % 256]

\* base58.b58encode(x).decode(): an injective text encoding of the bytes
b58encode(b) == [i \in 1..(2 * Len(b)) |->
                    IF i % 2 = 1 THEN b[(i + 1) \div 2] \div 58 ELSE b[i \div 2] % 58]

\* version byte 0x00, payload, 4-byte checksum, Base58
Base58Check(hash160) ==
    b58encode(<<0>> \o hash160 \o Checksum4(<<0>> \o hash160))

----------------------------------------------------------------------------
(* UTXODatabase: the index record decoder *)

TAG_C == 67

\* "for byte in data": the continuation-bit varint loop of decode_utxo_key
\* and decode_utxo_value; pos is the number of bytes consumed
RECURSIVE VarintLoop(_, _, _, _)
VarintLoop(data, i, shift, acc) ==
    IF i > Len(data) THEN [value |-> acc, pos |-> i - 1]
    ELSE LET v == acc + (data[i] % 128) * Pow2(shift)
         IN  IF data[i] < 128 THEN [value |-> v, pos |-> i]
             ELSE VarintLoop(data, i + 1, shift + 7, v)

\* the decoder without the tag test of line 73
decode_utxo_key_AnyTag(key) ==
    IF Len(key) < 33 THEN [ok |-> FALSE]
    ELSE [ok |-> TRUE, txid |-> Slice(key, 1, 33),
          vout |-> VarintLoop(Slice(key, 33, Len(key)), 1, 0, 0).value]

\* returns (None, None) as [ok |-> FALSE]
decode_utxo_key(key) ==
    IF Len(key) < 33 THEN [ok |-> FALSE]
    ELSE IF key[1] # TAG_C THEN [ok |-> FALSE]
    ELSE [ok |-> TRUE, txid |-> Slice(key, 1, 33),
          vout |-> VarintLoop(Slice(key, 33, Len(key)), 1, 0, 0).value]

decode_utxo_value(value) ==
    IF Len(value) < 1 THEN [amount |-> 0, script |-> <<>>]
    ELSE LET r == VarintLoop(value, 1, 0, 0)
         IN  [amount |-> r.value,
              script |-> IF r.pos < Len(value) THEN Slice(value, r.pos, Len(value))
                         ELSE <<>>]

OP_DUP == 118
OP_HASH160 == 169
OP_EQUALVERIFY == 136
OP_CHECKSIG == 172

\* the classifier taking the 20 bytes one position early
extract_address_from_script_ShiftedHash(script) ==
    IF Len(script) = 0 THEN <<<<>>, <<>>>>
    ELSE IF /\ Len(script) = 25
            /\ script[1] = OP_DUP
            /\ script[2] = OP_HASH160
            /\ script[3] = 20
            /\ script[24] = OP_EQUALVERIFY
            /\ script[25] = OP_CHECKSIG
         THEN <<Base58Check(Slice(script, 2, 22)), <<>>>>
    ELSE IF /\ Len(script) >= 35
            /\ script[Len(script)] = OP_CHECKSIG
            /\ script[1] \in {33, 65}
            /\ Len(script) = script[1] + 2
         THEN LET pubkey == Slice(script, 1, 1 + script[1])
              IN  <<Base58Check(Hash160(pubkey)), Hex(pubkey)>>
    ELSE <<<<>>, <<>>>>

\* returns <<address, pubkey_hex>>
extract_address_from_script(script) ==
    IF Len(script) = 0 THEN <<<<>>, <<>>>>
    ELSE IF /\ Len(script) = 25
            /\ script[1] = OP_DUP
            /\ script[2] = OP_HASH160
            /\ script[3] = 20
            /\ script[24] = OP_EQUALVERIFY
            /\ script[25] = OP_CHECKSIG
         THEN <<Base58Check(Slice(script, 3, 23)), <<>>>>
    ELSE IF /\ Len(script) >= 35
            /\ script[Len(script)] = OP_CHECKSIG
            /\ script[1] \in {33, 65}
            /\ Len(script) = script[1] + 2
         THEN LET pubkey == Slice(script, 1, 1 + script[1])
              IN  <<Base58Check(Hash160(pubkey)), Hex(pubkey)>>
    ELSE <<<<>>, <<>>>>

\* the BitcoinAddress created at lines 189-201
NewAddress(address, pubkey, amount) ==
    [address |-> address, public_key |-> pubkey,
     public_key_compressed |-> <<>>, public_key_uncompressed |-> <<>>,
     balance |-> amount, first_seen_block |-> 0, last_activity_block |-> 0,
     tags |-> <<>>, is_miner |-> FALSE, is_unspent |-> TRUE, has_spent |-> FALSE]

\* "balance = amount" in place of "balance += amount"
AddOrUpdate_Overwrite(addrs, address, pubkey, amount) ==
    [a \in DOMAIN addrs \cup {address} |->
        IF a = address THEN NewAddress(address, pubkey, amount) ELSE addrs[a]]

\* the dict after "addresses[address].balance += amount" / the insertion
AddOrUpdate(addrs, address, pubkey, amount) ==
    IF address \in DOMAIN addrs
    THEN [addrs EXCEPT ![address].balance = @ + amount]
    ELSE [a \in DOMAIN addrs \cup {address} |->
             IF a = address THEN NewAddress(address, pubkey, amount) ELSE addrs[a]]

\* the loop body without the "if amount == 0: continue" of line 177
ScanRecord_NoZeroSkip(addrs, key, value) ==
    IF ~decode_utxo_key(key).ok THEN addrs
    ELSE IF extract_address_from_script(decode_utxo_value(value).script)[1] = <<>>
    THEN addrs
    ELSE AddOrUpdate(addrs,
                     extract_address_from_script(decode_utxo_value(value).script)[1],
                     extract_address_from_script(decode_utxo_value(value).script)[2],
                     decode_utxo_value(value).amount)

\* one iteration of the loop of get_all_utxos over (key, value)
ScanRecord(addrs, key, value) ==
    LET k == decode_utxo_key(key)
        v == decode_utxo_value(value)
        e == extract_address_from_script(v.script)
    IN  IF ~k.ok THEN addrs
        ELSE IF v.amount = 0 THEN addrs
        ELSE IF e[1] = <<>> THEN addrs
        ELSE AddOrUpdate(addrs, e[1], e[2], v.amount)

\* get_all_utxos over the entries lg[1], ..., lg[n], iterated in that order
RECURSIVE get_all_utxos(_, _)
get_all_utxos(lg, n) ==
    IF n = 0 THEN <<>>
    ELSE ScanRecord(get_all_utxos(lg, n - 1), lg[n][1], lg[n][2])

----------------------------------------------------------------------------
(* BlockchainScanner: scripts, CompactSize, transactions, blocks *)

\* list(CScript(scriptsig)): the elements of a script, as python-bitcoinlib
\* iterates them.  A push yields its data, any other opcode yields the
\* opcode (an int); a push that runs past the end raises.
RECURSIVE ScriptElements(_, _, _)
ScriptElements(s, i, acc) ==
    IF i >= Len(s) THEN [ok |-> TRUE, elems |-> acc]
    ELSE LET opcode == s[i + 1]
             j == i + 1
             hdr == IF opcode < 76 THEN 0
                    ELSE IF opcode = 76 THEN 1
                    ELSE IF opcode = 77 THEN 2
                    ELSE 4
         IN  IF opcode > 78
             THEN ScriptElements(s, j, Append(acc, [data |-> FALSE, op |-> opcode]))
             ELSE IF j + hdr > Len(s) THEN [ok |-> FALSE, elems |-> acc]
             ELSE LET datasize == IF opcode < 76 THEN opcode
                                  ELSE LittleEndian(Slice(s, j, j + hdr))
                      k == j + hdr
                  IN  IF k + datasize > Len(s) THEN [ok |-> FALSE, elems |-> acc]
                      ELSE ScriptElements(s, k + datasize,
                               Append(acc, [data |-> TRUE,
                                            bytes |-> Slice(s, k, k + datasize)]))

\* extract_pubkey_from_scriptsig without the prefix tests of lines 233-236
extract_pubkey_from_scriptsig_NoPrefixCheck(scriptsig) ==
    LET p == ScriptElements(scriptsig, 0, <<>>)
    IN  IF ~p.ok THEN <<>>
        ELSE IF Len(p.elems) >= 2
        THEN LET c == Last(p.elems)
             IN  IF ~c.data THEN <<>>
                 ELSE IF Len(c.bytes) \in {33, 65} THEN Hex(c.bytes)
                 ELSE <<>>
        ELSE <<>>

\* returns the public key as hex, or "" (also when anything raises)
extract_pubkey_from_scriptsig(scriptsig) ==
    LET p == ScriptElements(scriptsig, 0, <<>>)
    IN  IF ~p.ok THEN <<>>
        ELSE IF Len(p.elems) >= 2
        THEN LET c == Last(p.elems)
             IN  IF ~c.data THEN <<>>      \* len() of an int raises TypeError
                 ELSE IF Len(c.bytes) \in {33, 65}
                 THEN IF Len(c.bytes) = 33 /\ c.bytes[1] \in {2, 3} THEN Hex(c.bytes)
                      ELSE IF Len(c.bytes) = 65 /\ c.bytes[1] = 4 THEN Hex(c.bytes)
                      ELSE <<>>
                 ELSE <<>>
        ELSE <<>>

pubkey_to_address(pubkey_hex) ==
    IF ~FromHexOk(pubkey_hex) THEN <<>>
    ELSE Base58Check(Hash160(FromHex(pubkey_hex)))

\* read_varint without the length tests of lines 374, 378 and 382
read_varint_NoLengthCheck(data, pos) ==
    IF pos >= Len(data) THEN [value |-> 0, size |-> 0]
    ELSE LET first_byte == data[pos + 1]
         IN  IF first_byte < 253 THEN [value |-> first_byte, size |-> 1]
             ELSE IF first_byte = 253
             THEN [value |-> LittleEndian(Slice(data, pos + 1, pos + 3)), size |-> 3]
             ELSE IF first_byte = 254
             THEN [value |-> LittleEndian(Slice(data, pos + 1, pos + 5)), size |-> 5]
             ELSE [value |-> LittleEndian(Slice(data, pos + 1, pos + 9)), size |-> 9]

\* CompactSize at the 0-based position pos: [value, size], size 0 on failure
read_varint(data, pos) ==
    IF pos >= Len(data) THEN [value |-> 0, size |-> 0]
    ELSE LET first_byte == data[pos + 1]
         IN  IF first_byte < 253 THEN [value |-> first_byte, size |-> 1]
             ELSE IF first_byte = 253
             THEN IF pos + 3 > Len(data) THEN [value |-> 0, size |-> 0]
                  ELSE [value |-> LittleEndian(Slice(data, pos + 1, pos + 3)), size |-> 3]
             ELSE IF first_byte = 254
             THEN IF pos + 5 > Len(data) THEN [value |-> 0, size |-> 0]
                  ELSE [value |-> LittleEndian(Slice(data, pos + 1, pos + 5)), size |-> 5]
             ELSE IF pos + 9 > Len(data) THEN [value |-> 0, size |-> 0]
                  ELSE [value |-> LittleEndian(Slice(data, pos + 1, pos + 9)), size |-> 9]

(* The walk over a payload carries w = [pos, spent, pubkeys] and three      *)
(* observations: overrun (a field walk has moved pos beyond the payload, or *)
(* a CompactSize read consumed zero bytes), lateTx (parse_transaction calls *)
(* begun after that) and lateClassified (scripts classified after that).    *)

\* "pos += n"
Advance(w, n, data) ==
    [w EXCEPT !.pos = @ + n, !.overrun = @ \/ (w.pos + n > Len(data))]

\* "x, varint_size = self.read_varint(data, pos); pos += varint_size"
AfterVarint(w, data) ==
    LET r == read_varint(data, w.pos)
    IN  [w EXCEPT !.pos = @ + r.size, !.overrun = @ \/ (r.size = 0)]

\* the classification without "spent_addrs.add(address)" (line 332)
Classify_KeyOnly(w, scriptsig) ==
    LET pubkey == extract_pubkey_from_scriptsig(scriptsig)
        address == pubkey_to_address(pubkey)
    IN  IF pubkey = <<>> \/ address = <<>> THEN w
        ELSE [w EXCEPT !.pubkeys = [a \in DOMAIN @ \cup {address} |->
                                       IF a = address THEN pubkey ELSE @[a]],
                       !.lateClassified = @ + (IF w.overrun THEN 1 ELSE 0)]

\* "spent_addrs.add(address); addr_pubkeys[address] = pubkey"
Classify(w, scriptsig) ==
    LET pubkey == extract_pubkey_from_scriptsig(scriptsig)
        address == pubkey_to_address(pubkey)
    IN  IF pubkey = <<>> \/ address = <<>> THEN w
        ELSE [w EXCEPT !.spent = @ \cup {address},
                       !.pubkeys = [a \in DOMAIN @ \cup {address} |->
                                       IF a = address THEN pubkey ELSE @[a]],
                       !.lateClassified = @ + (IF w.overrun THEN 1 ELSE 0)]

\* InputScript without the "if not is_coinbase" of line 311
InputScript_ClassifyCoinbase(data, w, scriptsig_len, is_coinbase) ==
    Advance(Classify(Advance(w, scriptsig_len, data),
                     Slice(data, w.pos, w.pos + scriptsig_len)),
            4, data)

\* "scriptsig = data[pos:pos + scriptsig_len]; pos += scriptsig_len", the
\* classification (skipped for a coinbase) and "pos += 4" for the sequence
InputScript(data, w, scriptsig_len, is_coinbase) ==
    Advance(IF is_coinbase THEN Advance(w, scriptsig_len, data)
            ELSE Classify(Advance(w, scriptsig_len, data),
                          Slice(data, w.pos, w.pos + scriptsig_len)),
            4, data)

\* the CompactSize script length of an input, read at w.pos
InputLength(data, w, is_coinbase) ==
    InputScript(data, AfterVarint(w, data), read_varint(data, w.pos).value,
                is_coinbase)

\* one input of a transaction: lines 313-336 (classified) or 340-344 (coinbase)
WalkInput(data, w, is_coinbase) ==
    InputLength(data, Advance(Advance(w, 32, data), 4, data), is_coinbase)

RECURSIVE WalkInputs(_, _, _, _)
WalkInputs(data, w, n, is_coinbase) ==
    IF n = 0 THEN w
    ELSE WalkInputs(data, WalkInput(data, w, is_coinbase), n - 1, is_coinbase)

\* "script_len, varint_size = ...; pos += varint_size + script_len"
OutputScript(data, w) ==
    Advance(AfterVarint(w, data), read_varint(data, w.pos).value, data)

\* one output: lines 352-354
WalkOutput(data, w) == OutputScript(data, Advance(w, 8, data))

RECURSIVE WalkOutputs(_, _, _)
WalkOutputs(data, w, n) ==
    IF n = 0 THEN w ELSE WalkOutputs(data, WalkOutput(data, w), n - 1)

\* lines 346-359: the output count, the outputs, the lock time
TxOutputs(data, w) ==
    Advance(WalkOutputs(data, AfterVarint(w, data), read_varint(data, w.pos).value),
            4, data)

\* lines 306-344: the input count and the inputs
TxInputs(data, w, is_coinbase) ==
    TxOutputs(data, WalkInputs(data, AfterVarint(w, data),
                               read_varint(data, w.pos).value, is_coinbase))

\* the observations at the entry of parse_transaction
EnterTx(w) ==
    [w EXCEPT !.txCalls = @ + 1, !.lateTx = @ + (IF w.overrun THEN 1 ELSE 0)]

\* No statement of the try block can raise (slices clamp, read_varint checks
\* its bounds, the classifiers catch), so the "return None" of the except
\* clause is never taken and the walk always returns a position.
parse_transaction(data, w, is_coinbase) ==
    TxInputs(data, Advance(EnterTx(w), 4, data), is_coinbase)

RECURSIVE WalkTransactions(_, _, _, _)
WalkTransactions(data, w, tx_idx, tx_count) ==
    IF tx_idx >= tx_count THEN w
    ELSE WalkTransactions(data, parse_transaction(data, w, tx_idx = 0),
                          tx_idx + 1, tx_count)

\* the walk state at "pos = 80"
BlockStart(spent_addrs, addr_pubkeys) ==
    [pos |-> 80, spent |-> spent_addrs, pubkeys |-> addr_pubkeys,
     overrun |-> FALSE, lateTx |-> 0, lateClassified |-> 0, txCalls |-> 0]

\* parse_block_data on the sets of the running parse_block_file
parse_block_data(block_data, spent_addrs, addr_pubkeys) ==
    WalkTransactions(block_data,
                     AfterVarint(BlockStart(spent_addrs, addr_pubkeys), block_data),
                     0, read_varint(block_data, 80).value)

----------------------------------------------------------------------------
(* FastAddressCollector: key formats and reconciliation *)

\* the field prime p of line 507, scaled to one byte (251 = 3 mod 4, prime)
FIELD_P == 251

RECURSIVE ModPow(_, _, _)
ModPow(b, e, m) ==
    IF e = 0 THEN 1 % m
    ELSE IF e % 2 = 0 THEN ModPow((b * b) % m, e \div 2, m)
    ELSE (b * ModPow((b * b) % m, e \div 2, m)) % m

\* int.from_bytes(b, 'big') % m, reduced while folding
RECURSIVE BigEndianMod(_, _, _)
BigEndianMod(b, m, acc) ==
    IF Len(b) = 0 THEN acc ELSE BigEndianMod(Tail(b), m, (acc * 256 + b[1]) % m)

\* y.to_bytes(32, 'big') for 0 <= y < 256
ToBytes32(y) == Rep(0, 31) \o <<y>>

compress_pubkey(pubkey_hex) ==
    IF pubkey_hex = <<>> THEN <<>>
    ELSE IF ~FromHexOk(pubkey_hex) THEN pubkey_hex      \* except: pass
    ELSE LET pubkey_bytes == FromHex(pubkey_hex)
         IN  IF Len(pubkey_bytes) = 65 /\ pubkey_bytes[1] = 4
             THEN LET x == Slice(pubkey_bytes, 1, 33)
                      y == Slice(pubkey_bytes, 33, 65)
                      prefix == IF BigEndianMod(y, 2, 0) = 0 THEN 2 ELSE 3
                  IN  Hex(<<prefix>> \o x)
             ELSE pubkey_hex

\* the decompression without the choice of the root by the prefix
uncompress_pubkey_NoParity(pubkey_hex) ==
    IF pubkey_hex = <<>> THEN <<>>
    ELSE IF ~FromHexOk(pubkey_hex) THEN <<>>
    ELSE LET pubkey_bytes == FromHex(pubkey_hex)
         IN  IF Len(pubkey_bytes) = 65 /\ pubkey_bytes[1] = 4 THEN pubkey_hex
             ELSE IF Len(pubkey_bytes) = 33 /\ pubkey_bytes[1] \in {2, 3}
             THEN LET xb == Slice(pubkey_bytes, 1, 33)
                      x == BigEndianMod(xb, FIELD_P, 0)
                      y_squared == (ModPow(x, 3, FIELD_P) + 7) % FIELD_P
                      y0 == ModPow(y_squared, (FIELD_P + 1) \div 4, FIELD_P)
                  IN  Hex(<<4>> \o xb \o ToBytes32(y0))
             ELSE <<>>

\* the decompression with y_squared itself in place of its root (line 517)
uncompress_pubkey_NoRoot(pubkey_hex) ==
    IF pubkey_hex = <<>> THEN <<>>
    ELSE IF ~FromHexOk(pubkey_hex) THEN <<>>
    ELSE LET pubkey_bytes == FromHex(pubkey_hex)
         IN  IF Len(pubkey_bytes) = 65 /\ pubkey_bytes[1] = 4 THEN pubkey_hex
             ELSE IF Len(pubkey_bytes) = 33 /\ pubkey_bytes[1] \in {2, 3}
             THEN LET xb == Slice(pubkey_bytes, 1, 33)
                      x == BigEndianMod(xb, FIELD_P, 0)
                      y0 == (ModPow(x, 3, FIELD_P) + 7) % FIELD_P
                      is_even == (y0 % 2 = 0)
                      y == IF pubkey_bytes[1] = 2
                           THEN IF ~is_even THEN FIELD_P - y0 ELSE y0
                           ELSE IF is_even THEN FIELD_P - y0 ELSE y0
                  IN  Hex(<<4>> \o xb \o ToBytes32(y))
             ELSE <<>>

uncompress_pubkey(pubkey_hex) ==
    IF pubkey_hex = <<>> THEN <<>>
    ELSE IF ~FromHexOk(pubkey_hex) THEN <<>>
    ELSE LET pubkey_bytes == FromHex(pubkey_hex)
         IN  IF Len(pubkey_bytes) = 65 /\ pubkey_bytes[1] = 4 THEN pubkey_hex
             ELSE IF Len(pubkey_bytes) = 33 /\ pubkey_bytes[1] \in {2, 3}
             THEN LET xb == Slice(pubkey_bytes, 1, 33)
                      x == BigEndianMod(xb, FIELD_P, 0)
                      y_squared == (ModPow(x, 3, FIELD_P) + 7) % FIELD_P
                      y0 == ModPow(y_squared, (FIELD_P + 1) \div 4, FIELD_P)
                      is_even == (y0 % 2 = 0)
                      y == IF pubkey_bytes[1] = 2
                           THEN IF ~is_even THEN FIELD_P - y0 ELSE y0
                           ELSE IF is_even THEN FIELD_P - y0 ELSE y0
                  IN  Hex(<<4>> \o xb \o ToBytes32(y))
             ELSE <<>>

\* the loop body that marks the record it keeps as having spent
ReconcileRecord_MarksSpent(addr_obj, spent, pubkeys) ==
    [addr_obj EXCEPT !.has_spent = TRUE]

\* the loop body with the balance of the record it keeps set to zero
ReconcileRecord_ResetsBalance(addr_obj, spent, pubkeys) ==
    [addr_obj EXCEPT !.balance = 0, !.has_spent = FALSE]

\* the body of the loop of collect_addresses for one record (lines 457-466):
\* the record as the loop leaves it
ReconcileRecord(addr_obj, spent, pubkeys) ==
    IF addr_obj.address \notin spent
    THEN LET o == IF addr_obj.address \in DOMAIN pubkeys
                  THEN [addr_obj EXCEPT
                           !.public_key = pubkeys[addr_obj.address],
                           !.public_key_compressed =
                               compress_pubkey(pubkeys[addr_obj.address]),
                           !.public_key_uncompressed =
                               uncompress_pubkey(pubkeys[addr_obj.address])]
                  ELSE addr_obj
         IN  [o EXCEPT !.has_spent = FALSE]
    ELSE addr_obj

\* the filter with the membership test left out
IsNeverSpent_Unfiltered(address, spent) == TRUE

\* which records the loop puts into never_spent_addresses
IsNeverSpent(address, spent) == address \notin spent

\* never_spent_addresses of collect_addresses
FilterNeverSpent(addrs, spent, pubkeys) ==
    [a \in {b \in DOMAIN addrs : IsNeverSpent(b, spent)} |->
        ReconcileRecord(addrs[a], spent, pubkeys)]

----------------------------------------------------------------------------
(* The inputs of the model: index entries and block-file contents,         *)
(* built byte by byte as the formats the code decodes.                     *)

\* a compressed and an uncompressed public key
PK1 == <<2>> \o Rep(0, 31) \o <<5>>
PK2 == <<4>> \o Rep(0, 31) \o <<9>> \o Rep(0, 31) \o <<20>>

\* a 20-byte hash that is the hash of no key of the model
H3 == Rep(170, 20)

P2PKHScript(h) == <<OP_DUP, OP_HASH160, 20>> \o h \o <<OP_EQUALVERIFY, OP_CHECKSIG>>
P2PKScript(pk) == <<Len(pk)>> \o pk \o <<OP_CHECKSIG>>

GoodKey == <<TAG_C>> \o Rep(17, 32) \o <<0>>
\* output index 200 as a two-byte varint
GoodKey2 == <<TAG_C>> \o Rep(34, 32) \o <<200, 1>>
BadTagKey == <<66>> \o Rep(17, 32) \o <<0>>
ShortKey == <<TAG_C>> \o Rep(17, 10)

IndexUniverse ==
    { <<GoodKey, <<1>> \o P2PKHScript(Hash160(PK1))>>,
      <<GoodKey, <<5>> \o P2PKScript(PK1)>>,
      <<GoodKey2, <<200, 1>> \o P2PKHScript(H3)>>,
      <<GoodKey, <<0>> \o P2PKHScript(H3)>>,
      <<BadTagKey, <<7>> \o P2PKHScript(H3)>>,
      <<ShortKey, <<7>> \o P2PKHScript(Hash160(PK1))>>,
      <<GoodKey, <<4>> \o <<OP_DUP, OP_HASH160, 20>>>> }

MAGIC == <<249, 190, 180, 217>>

\* '<I' of a length below 65536
LE32(n) == <<n % 256, n \div 256, 0, 0>>

\* <signature> <public key> as two pushes
SigScript(pk) == <<2, 48, 1, Len(pk)>> \o pk

TxInput(scriptsig) ==
    Rep(0, 32) \o <<0, 0, 0, 0>> \o <<Len(scriptsig)>> \o scriptsig
        \o <<255, 255, 255, 255>>

TxOutput(script) == Rep(0, 8) \o <<Len(script)>> \o script

\* a transaction of one input and one output
Tx(scriptsig) ==
    <<1, 0, 0, 0>> \o <<1>> \o TxInput(scriptsig) \o <<1>>
        \o TxOutput(P2PKHScript(H3)) \o <<0, 0, 0, 0>>

\* a coinbase whose script has the shape <signature> <public key>
Coinbase == Tx(SigScript(PK1))

Header == Rep(0, 80)

BlockUniverse ==
    { \* a coinbase only
      Header \o <<1>> \o Coinbase,
      \* a spend by PK1, a spend by PK2
      Header \o <<2>> \o Coinbase \o Tx(SigScript(PK1)),
      Header \o <<2>> \o Coinbase \o Tx(SigScript(PK2)),
      \* three transactions declared; the second declares a 200-byte
      \* unlocking script and the payload ends after 37 bytes of it
      Header \o <<3>> \o Coinbase \o <<1, 0, 0, 0>> \o <<1>> \o Rep(0, 36)
          \o <<200>> \o SigScript(PK1),
      \* the input count of the second transaction is a cut 0xfd CompactSize
      Header \o <<2>> \o Coinbase \o <<1, 0, 0, 0>> \o <<253, 1>> }

Frame(block) == MAGIC \o LE32(Len(block)) \o block

\* a frame whose declared length exceeds the bytes left in the file
TruncatedFrame == MAGIC \o LE32(300) \o Rep(0, 90)

\* what a file can hold from the read position on, when no whole frame follows
TailUniverse ==
    { <<>>,                 \* end of file
      Rep(0, 8),            \* pre-allocated zeros: bad magic
      <<249, 190>>,         \* fewer than 4 bytes
      MAGIC \o <<1, 2>>,    \* a cut length field
      TruncatedFrame }

----------------------------------------------------------------------------
(* The run of main() *)

NoOutput == [name |-> "", written |-> FALSE]

OUTPUT_FILE == "bitcoin_addresses_fast.json"

Closed == [open |-> FALSE]

\* the probe loop with "continue" in place of the "break" of line 412
ProbeStep_NoBreak(files, i, exists) ==
    [files |-> IF exists THEN Append(files, i) ELSE files, continue |-> TRUE]

\* "for i in range(1000)": one probe of blk<i>.dat; exists is what the disk
\* answers.  [files, continue]
ProbeStep(files, i, exists) ==
    IF exists THEN [files |-> Append(files, i), continue |-> TRUE]
    ELSE [files |-> files, continue |-> FALSE]

\* the loop test of "for file_path in block_files" with the break of line 418
ScanEnds(files, idx, processed) ==
    idx >= Len(files) \/ processed >= MAX_BLOCKS

\* parse_block_file without its except clause
OnShortLength_Uncaught == "raise"

\* what a short read of the 4-byte length (struct.error) does to
\* parse_block_file: "stop", since the except clause of line 273 catches it
OnShortLength == "stop"

\* "raise" in place of the break of line 264
OnShortPayload_Raise == "raise"

\* what a short read of the payload does: the break of line 264
OnShortPayload == "stop"

\* "self.parse_block_data(...); blocks_processed += 1" with the walk w done
AfterBlock(fs, w) ==
    [kind |-> "next",
     fs |-> [fs EXCEPT !.spent_addrs = w.spent, !.addr_pubkeys = w.pubkeys,
                       !.blocks_processed = @ + 1],
     w |-> w]

\* lines 260-268, given the payload read and the declared size
FramePayload(fs, block_data, block_size) ==
    IF Len(block_data) # block_size
    THEN [kind |-> OnShortPayload, fs |-> fs, w |-> <<>>]
    ELSE AfterBlock(fs, parse_block_data(block_data, fs.spent_addrs, fs.addr_pubkeys))

\* One iteration of the while loop of parse_block_file, reading rest (the
\* bytes of the file from the read position on).  kind is "next" (a frame
\* was parsed, the loop goes on), "stop" (break, or an exception caught at
\* line 273: the file's sets are returned) or "raise" (an exception leaves
\* parse_block_file).
FrameStep(fs, rest) ==
    IF fs.max_blocks # 0 /\ fs.blocks_processed >= fs.max_blocks
    THEN [kind |-> "stop", fs |-> fs, w |-> <<>>]
    ELSE IF Slice(rest, 0, 4) = <<>> \/ Slice(rest, 0, 4) # MAGIC
    THEN [kind |-> "stop", fs |-> fs, w |-> <<>>]
    ELSE IF Len(Slice(rest, 4, 8)) < 4
    THEN [kind |-> OnShortLength, fs |-> fs, w |-> <<>>]
    ELSE FramePayload(fs,
                      Slice(rest, 8, 8 + LittleEndian(Slice(rest, 4, 8))),
                      LittleEndian(Slice(rest, 4, 8)))

\* dict.update
Update(d, e) ==
    [a \in DOMAIN d \cup DOMAIN e |-> IF a \in DOMAIN e THEN e[a] ELSE d[a]]

\* "blocks_processed += len(spent_addrs)  # Approximation"
CountFile(processed, fs) == processed + Cardinality(fs.spent_addrs)

\* valid magic, whole length field, declared length beyond the bytes left
IsTruncatedFrame(rest) ==
    /\ Slice(rest, 0, 4) = MAGIC
    /\ Len(rest) >= 8
    /\ LittleEndian(Slice(rest, 4, 8)) > Len(rest) - 8

\* no function has been called on its own
NoCall == [fn |-> "", arg |-> <<>>, result |-> <<>>]

\* the collector before main() has done anything
NotStarted ==
    /\ interrupted = FALSE
    /\ log = <<>>
    /\ addresses = <<>>
    /\ block_files = <<>>
    /\ fileIdx = 0
    /\ blocks_processed = 0
    /\ spent_addresses = {}
    /\ address_pubkeys = <<>>
    /\ fileState = Closed
    /\ never_spent = <<>>
    /\ output = NoOutput
    /\ hist = [probed |-> 0, disk |-> <<>>, opened |-> <<>>,
               preTruncSpent |-> {}, preTruncKeys |-> <<>>,
               overrunSeen |-> FALSE, lateTx |-> FALSE, lateClassified |-> FALSE,
               frames |-> 0]

\* the game backend is not running: an empty database, no request
GameOff ==
    /\ today = 0
    /\ challenges = <<>>
    /\ sentinel = [exists |-> FALSE, owner |-> 0]
    /\ row_lock = <<>>
    /\ requests = <<>>
    /\ activated = <<>>
    /\ guess_rows = <<>>
    /\ session = <<>>
    /\ response = [status |-> 0]

Init ==
    /\ pc = "main"
    /\ env \in {e \in [dataDir : BOOLEAN, chainstate : BOOLEAN, blocks : BOOLEAN] :
                   (e.chainstate \/ e.blocks) => e.dataDir}
    /\ NotStarted
    /\ call = NoCall
    /\ GameOff

scanVars == <<block_files, fileIdx, blocks_processed, spent_addresses,
              address_pubkeys, fileState, hist>>

\* main, lines 585-592: the directory checks and the constructors
Start ==
    /\ pc = "main"
    /\ pc' = IF ~env.dataDir THEN "returned"
             ELSE IF ~env.chainstate THEN "crashed"
             ELSE "get_all_utxos"
    /\ UNCHANGED <<sideVars, env, interrupted, log, addresses, never_spent, output>>
    /\ UNCHANGED scanVars

\* get_all_utxos: one iteration of "for key, value in self.chainstate_db"
IndexRecord ==
    /\ pc = "get_all_utxos"
    /\ Len(log) < MaxIndex
    /\ \E kv \in IndexUniverse :
          /\ log' = Append(log, kv)
          /\ addresses' = ScanRecord(addresses, kv[1], kv[2])
    /\ UNCHANGED <<sideVars, pc, env, interrupted, never_spent, output>>
    /\ UNCHANGED scanVars

\* the iterator is exhausted: get_all_utxos returns
IndexEnd ==
    /\ pc = "get_all_utxos"
    /\ pc' = "find_block_files"
    /\ UNCHANGED <<sideVars, env, interrupted, log, addresses, never_spent, output>>
    /\ UNCHANGED scanVars

\* scan_spending_history, lines 407-412: one probe of the next file name
ProbeFile ==
    /\ pc = "find_block_files"
    /\ IF hist.probed >= MaxFiles
       THEN /\ pc' = "scan_files"
            /\ UNCHANGED <<block_files, hist>>
       ELSE \E onDisk \in BOOLEAN :
               LET exists == env.blocks /\ onDisk
                   r == ProbeStep(block_files, hist.probed, exists)
               IN  /\ block_files' = r.files
                   /\ hist' = [hist EXCEPT !.probed = @ + 1,
                                           !.disk = Append(@, exists)]
                   /\ pc' = IF r.continue THEN "find_block_files" ELSE "scan_files"
    /\ UNCHANGED <<sideVars, env, interrupted, log, addresses, never_spent, output, fileIdx,
                   blocks_processed, spent_addresses, address_pubkeys, fileState>>

\* scan_spending_history, lines 417-424: the loop test and the open of a file
NextFile ==
    /\ pc = "scan_files"
    /\ IF ScanEnds(block_files, fileIdx, blocks_processed)
       THEN /\ pc' = "reconcile"
            /\ UNCHANGED <<fileState, hist>>
       ELSE /\ pc' = "parse_block_file"
            /\ fileState' = [open |-> TRUE, spent_addrs |-> {}, addr_pubkeys |-> <<>>,
                             blocks_processed |-> 0,
                             max_blocks |-> MAX_BLOCKS - blocks_processed]
            /\ hist' = [hist EXCEPT !.opened = Append(@, block_files[fileIdx + 1])]
    /\ UNCHANGED <<sideVars, env, interrupted, log, addresses, never_spent, output, block_files,
                   fileIdx, blocks_processed, spent_addresses, address_pubkeys>>

\* what the block scan is seen to do in one step of parse_block_file
Observe(h, r, cut, spent, keys) ==
    [h EXCEPT
        !.preTruncSpent = IF cut THEN @ \cup spent ELSE @,
        !.preTruncKeys = IF cut THEN Update(@, keys) ELSE @,
        !.frames = @ + (IF r.kind = "next" THEN 1 ELSE 0),
        !.overrunSeen = @ \/ (r.kind = "next" /\ r.w.overrun),
        !.lateTx = @ \/ (r.kind = "next" /\ r.w.lateTx > 0),
        !.lateClassified = @ \/ (r.kind = "next" /\ r.w.lateClassified > 0)]

\* the step of parse_block_file with the outcome r of FrameStep on rest
ApplyFrame(r, rest) ==
    /\ hist' = Observe(hist, r, r.kind # "next" /\ IsTruncatedFrame(rest),
                       spent_addresses \cup fileState.spent_addrs,
                       Update(address_pubkeys, fileState.addr_pubkeys))
    /\ CASE r.kind = "next" ->
              /\ fileState' = r.fs
              /\ UNCHANGED <<pc, fileIdx, blocks_processed,
                             spent_addresses, address_pubkeys>>
         [] r.kind = "stop" ->
              /\ fileState' = Closed
              /\ spent_addresses' = spent_addresses \cup r.fs.spent_addrs
              /\ address_pubkeys' = Update(address_pubkeys, r.fs.addr_pubkeys)
              /\ blocks_processed' = CountFile(blocks_processed, r.fs)
              /\ fileIdx' = fileIdx + 1
              /\ pc' = "scan_files"
         [] OTHER ->
              \* the exception reaches "except Exception" of main
              /\ fileState' = Closed
              /\ pc' = "error"
              /\ UNCHANGED <<fileIdx, blocks_processed,
                             spent_addresses, address_pubkeys>>

\* parse_block_file: one iteration of its loop; when the loop ends, the
\* return and the merge of lines 425-428
ReadFrame ==
    /\ pc = "parse_block_file"
    /\ \E rest \in TailUniverse \cup
                    (IF fileState.blocks_processed < MaxFrames
                     THEN {Frame(b) : b \in BlockUniverse} ELSE {}) :
          ApplyFrame(FrameStep(fileState, rest), rest)
    /\ UNCHANGED <<sideVars, env, interrupted, log, addresses, never_spent, output, block_files>>

\* collect_addresses, lines 453-469.  The records of never_spent_addresses
\* are the objects of addresses, so the dict of the index scan sees the
\* assignments too.
Reconcile ==
    /\ pc = "reconcile"
    /\ never_spent' = FilterNeverSpent(addresses, spent_addresses, address_pubkeys)
    /\ addresses' = [a \in DOMAIN addresses |->
                        ReconcileRecord(addresses[a], spent_addresses, address_pubkeys)]
    /\ pc' = "save_to_file"
    /\ UNCHANGED <<sideVars, env, interrupted, log, output>>
    /\ UNCHANGED scanVars

\* main, lines 599-625: save_to_file, the summary, close
Save ==
    /\ pc = "save_to_file"
    /\ output' = [name |-> OUTPUT_FILE, written |-> TRUE, addresses |-> never_spent]
    /\ pc' = "done"
    /\ UNCHANGED <<sideVars, env, interrupted, log, addresses, never_spent>>
    /\ UNCHANGED scanVars

\* A KeyboardInterrupt during collect_addresses.  It is no Exception: no
\* except clause of the file catches it, the finally of main closes the
\* database and the process ends with the traceback.
Interrupt ==
    /\ pc \in {"get_all_utxos", "find_block_files", "scan_files",
               "parse_block_file", "reconcile"}
    /\ interrupted' = TRUE
    /\ pc' = "killed"
    /\ UNCHANGED <<sideVars, env, log, addresses, never_spent, output>>
    /\ UNCHANGED scanVars

Run ==
    \/ Start
    \/ IndexRecord
    \/ IndexEnd
    \/ ProbeFile
    \/ NextFile
    \/ ReadFrame
    \/ Reconcile
    \/ Save

Next == Run \/ Interrupt

Spec == Init /\ [][Next]_vars

\* the interpreter always takes the next step of the program
FairSpec == Spec /\ WF_vars(Run)

----------------------------------------------------------------------------
(* The key conversions and the script classifier called on their own *)

\* s with the byte at position i (1-based) replaced by b
WithByte(s, i, b) == [s EXCEPT ![i] = b]

\* 33- and 65-byte keys: every prefix of interest, every low byte of x
KeyBytesUniverse ==
    {<<p>> \o Rep(0, 31) \o <<b>> : p \in {0, 2, 3, 4, 5}, b \in 0..255}
        \cup {<<p>> \o Rep(a, 32) : p \in {2, 3}, a \in {1, 127, 255}}
        \cup {<<p>> \o Rep(0, 31) \o <<x>> \o Rep(0, 31) \o <<y>> :
                 p \in {2, 4, 5}, x \in {5, 9}, y \in {20, 21}}
        \cup {<<4>> \o Rep(255, 64)}

\* the texts given to compress_pubkey and uncompress_pubkey: the hex of the
\* keys, keys one byte short or long, "", an odd number of digits, and a
\* character (code 16) that is no hexadecimal digit
KeyTextUniverse ==
    {Hex(k) : k \in KeyBytesUniverse}
        \cup {Hex(Slice(PK1, 0, 32)), Hex(PK1 \o <<0>>),
              Hex(Slice(PK2, 0, 64)), Hex(PK2 \o <<0>>)}
        \cup {<<>>, <<0>>, Hex(PK1) \o <<2>>, <<16, 16>>, WithByte(Hex(PK1), 66, 16),
              WithByte(Hex(PK2), 3, 16)}

\* the locking scripts given to extract_address_from_script
ScriptUniverse ==
    LET hashes == {Rep(0, 20), H3, Hash160(PK1), [i \in 1..20 |-> 10 * i]}
        p2pkh == {P2PKHScript(h) : h \in hashes}
        keys == {<<p>> \o Rep(0, 31) \o <<b>> : p \in {0, 2, 3, 4, 5}, b \in {5, 6}}
                    \cup {<<p>> \o Rep(0, 31) \o <<9>> \o Rep(0, 31) \o <<y>> :
                             p \in {2, 3, 4, 5}, y \in {20, 21}}
                    \cup {Rep(2, 32), Rep(2, 34), Rep(4, 64), Rep(4, 66), Rep(2, 23)}
        p2pk == {P2PKScript(k) : k \in keys}
    IN  p2pkh
            \cup {WithByte(s, i, 0) : s \in p2pkh, i \in {1, 2, 3, 24, 25}}
            \cup {s \o <<OP_CHECKSIG>> : s \in p2pkh}
            \cup {Slice(s, 0, 24) : s \in p2pkh}
            \cup {Slice(s, 1, 25) : s \in p2pkh}
            \cup p2pk
            \cup {WithByte(s, Len(s), 0) : s \in p2pk}
            \cup {<<33>> \o Slice(s, 1, Len(s)) : s \in p2pk}
            \cup {<<65>> \o Slice(s, 1, Len(s)) : s \in p2pk}
            \cup {s \o <<OP_CHECKSIG>> : s \in p2pk}
            \cup {<<>>, <<OP_CHECKSIG>>}

\* no run of main(); one function is called on one argument
CallInit ==
    /\ pc = "off"
    /\ env = [dataDir |-> FALSE, chainstate |-> FALSE, blocks |-> FALSE]
    /\ NotStarted
    /\ call = NoCall
    /\ GameOff

Call_compress_pubkey ==
    /\ call = NoCall
    /\ \E h \in KeyTextUniverse :
          call' = [fn |-> "compress_pubkey", arg |-> h, result |-> compress_pubkey(h)]
    /\ UNCHANGED <<runVars, gameVars>>

Call_uncompress_pubkey ==
    /\ call = NoCall
    /\ \E h \in KeyTextUniverse :
          call' = [fn |-> "uncompress_pubkey", arg |-> h,
                   result |-> uncompress_pubkey(h)]
    /\ UNCHANGED <<runVars, gameVars>>

Call_extract_address_from_script ==
    /\ call = NoCall
    /\ \E s \in ScriptUniverse :
          call' = [fn |-> "extract_address_from_script", arg |-> s,
                   result |-> extract_address_from_script(s)]
    /\ UNCHANGED <<runVars, gameVars>>

\* unlocking scripts put in a coinbase: <signature> <public key> shapes,
\* zeros of the same length, a short push
CoinbaseScripts ==
    {SigScript(PK1), SigScript(PK2), Rep(0, Len(SigScript(PK1))), <<3, 1, 2, 3>>}

\* what follows the coinbase in a block: the transaction count of the block
\* and the bytes of the other transactions
SpendUniverse ==
    { [n |-> 1, bytes |-> <<>>],
      [n |-> 2, bytes |-> Tx(SigScript(PK1))],
      [n |-> 2, bytes |-> Tx(SigScript(PK2))],
      [n |-> 3, bytes |-> Tx(SigScript(PK1)) \o Tx(SigScript(PK2))] }

\* a block payload whose first transaction has the unlocking script cb
BlockOf(cb, rest) == Header \o <<rest.n>> \o Tx(cb) \o rest.bytes

\* a script element: pushed bytes, or an opcode that pushes nothing
Data(b) == [data |-> TRUE, bytes |-> b]
Op(o) == [data |-> FALSE, op |-> o]

\* the bytes of one element: a direct push below 76 bytes, else PUSHDATA1
Push(e) ==
    IF ~e.data THEN <<e.op>>
    ELSE IF Len(e.bytes) < 76 THEN <<Len(e.bytes)>> \o e.bytes
    ELSE <<76, Len(e.bytes)>> \o e.bytes

\* the bytes of a script made of the elements es
RECURSIVE Encode(_)
Encode(es) == IF es = <<>> THEN <<>> ELSE Push(Head(es)) \o Encode(Tail(es))

\* last elements: keys of every length around 33 and 65 with every prefix
\* of interest, a signature, a 76-byte push, an opcode
LastElements ==
    {Data(<<p>> \o Rep(7, n)) : p \in {0, 2, 3, 4, 5}, n \in {31, 32, 33, 63, 64, 65}}
        \cup {Data(<<48, 1>>), Data(Rep(2, 76)), Data(<<>>), Op(OP_CHECKSIG), Op(81)}

\* what precedes the last element
PrecedingElements ==
    { <<>>, <<Data(<<48, 1>>)>>, <<Op(81)>>, <<Data(<<>>), Data(<<48, 1>>)>>,
      <<Data(<<48, 1>>), Data(Rep(2, 33)), Data(Rep(9, 80))>> }

ElementLists ==
    {<<>>} \cup {pre \o <<e>> : pre \in PrecedingElements, e \in LastElements}

\* scripts on which the element iteration raises: a push cut short
CutScripts ==
    { <<33, 2, 0>>, <<2, 48, 1, 33>> \o Rep(2, 32), <<2, 48, 1, 76>>,
      <<2, 48, 1, 77, 33>>, <<2, 48, 1, 78, 33, 0, 0>>, <<2, 48, 1, 76, 40>> \o PK1 }

ScriptSigUniverse == {Encode(es) : es \in ElementLists} \cup CutScripts

Call_extract_pubkey_from_scriptsig ==
    /\ call = NoCall
    /\ \E s \in ScriptSigUniverse :
          call' = [fn |-> "extract_pubkey_from_scriptsig", arg |-> s,
                   result |-> extract_pubkey_from_scriptsig(s)]
    /\ UNCHANGED <<runVars, gameVars>>

\* index keys whose output index is a varint that ends with the
\* continuation flag set, after a good one
CutVoutKeys ==
    { <<TAG_C>> \o Rep(17, 32) \o <<133>>,
      <<TAG_C>> \o Rep(17, 32) \o <<255, 129>> }

\* index values: amounts 5 and 133 + 128 with a script, and amounts whose
\* varint ends with the continuation flag set
IndexValues ==
    { <<5>> \o P2PKHScript(H3), <<133, 1>> \o P2PKHScript(Hash160(PK1)),
      <<133>>, <<133, 128>>, <<128>> }

\* the index as a sequence of one or two entries
IndexCallUniverse ==
    LET kv == {<<k, v>> : k \in {GoodKey, GoodKey2} \cup CutVoutKeys, v \in IndexValues}
    IN  {<<e>> : e \in kv}
            \cup {<<<<GoodKey, <<5>> \o P2PKHScript(H3)>>, e>> : e \in kv}

\* get_all_utxos over an index: the addresses dict returned
Call_get_all_utxos ==
    /\ call = NoCall
    /\ \E lg \in IndexCallUniverse :
          call' = [fn |-> "get_all_utxos", arg |-> lg,
                   result |-> get_all_utxos(lg, Len(lg))]
    /\ UNCHANGED <<runVars, gameVars>>

\* whole CompactSize encodings: one byte up to 0xfc, and the 0xfd, 0xfe and
\* 0xff forms
CompactSizes ==
    {<<b>> : b \in {0, 1, 127, 128, 252}}
        \cup {<<253, 253, 0>>, <<253, 1, 2>>, <<253, 255, 255>>}
        \cup {<<254, 0, 0, 1, 0>>, <<254, 255, 255, 255, 127>>}
        \cup {<<255, 1, 2, 3, 64, 0, 0, 0, 0>>, <<255, 0, 0, 0, 0, 0, 0, 0, 0>>}

\* the encodings of more than one byte with their last bytes missing
CutCompactSizes ==
    {Slice(c, 0, n) : c \in {<<253, 1, 2>>, <<254, 0, 0, 1, 0>>,
                             <<255, 1, 2, 3, 64, 0, 0, 0, 0>>},
                      n \in 1..8} \ CompactSizes

\* the bytes before the position read
Paddings == {<<>>, <<9, 254>>}

\* (data, pos) arguments: an encoding at pos followed by anything, a cut
\* encoding that ends the data, a position at or past the end
VarintArgs ==
    {[data |-> pad \o c \o tail, pos |-> Len(pad)] :
        pad \in Paddings, c \in CompactSizes, tail \in {<<>>, <<7>>, Rep(255, 9)}}
      \cup {[data |-> pad \o c, pos |-> Len(pad)] :
               pad \in Paddings, c \in CutCompactSizes}
      \cup {[data |-> pad, pos |-> Len(pad) + n] : pad \in Paddings, n \in {0, 1, 5}}

Call_read_varint ==
    /\ call = NoCall
    /\ \E a \in VarintArgs :
          call' = [fn |-> "read_varint", arg |-> a,
                   result |-> read_varint(a.data, a.pos)]
    /\ UNCHANGED <<runVars, gameVars>>

\* parse_block_data on a payload, with empty sets passed in
Call_parse_block_data ==
    /\ call = NoCall
    /\ \E cb \in CoinbaseScripts, rest \in SpendUniverse :
          call' = [fn |-> "parse_block_data", arg |-> BlockOf(cb, rest),
                   result |-> [spent |-> parse_block_data(BlockOf(cb, rest), {}, <<>>).spent,
                               pubkeys |-> parse_block_data(BlockOf(cb, rest), {}, <<>>).pubkeys]]
    /\ UNCHANGED <<runVars, gameVars>>

CallNext ==
    \/ Call_compress_pubkey
    \/ Call_uncompress_pubkey
    \/ Call_extract_address_from_script
    \/ Call_parse_block_data
    \/ Call_extract_pubkey_from_scriptsig
    \/ Call_get_all_utxos
    \/ Call_read_varint

CallSpec == CallInit /\ [][CallNext]_vars

----------------------------------------------------------------------------
(* backend/game/views.py: DailyChallengeView.get_or_create_daily_challenge. *)
(* The function runs in one database transaction (transaction.atomic):     *)
(* its writes and its row locks last until it returns or raises, and an    *)
(* exception rolls the writes back.  Other transactions read committed     *)
(* rows only.                                                              *)

\* Challenge rows in the table
MaxChallenges == 3
\* requests that run at the same time
MaxClients == 2
\* the last day the clock reaches
MaxDay == 3

ChallengeIds == 1..MaxChallenges
Clients == 1..MaxClients

\* active_date = NULL
NoDate == -1
\* None: no row found
NoChallenge == 0

Row(active, date) == [active |-> active, active_date |-> date]

\* locals of a request that is not running
Idle == [pc |-> "idle", today |-> NoDate, active |-> NoChallenge,
         result |-> NoChallenge, error |-> ""]

\* select_for_update that does not wait for the holder of the lock
CanLock_NoWait(owner) == TRUE

\* select_for_update returns the row once no other transaction holds it
CanLock(owner) == owner = 0

\* the filter without "active_date=None"
IsCandidate_AnyDate(row) == ~row.active

\* Challenge.objects.filter(active=False, active_date=None)
IsCandidate(row) == ~row.active /\ row.active_date = NoDate

\* the rows as the transaction of request r sees them: the committed rows
\* and its own write of lines 41-42
View(r) ==
    [c \in ChallengeIds |->
        IF c = requests[r].active THEN [challenges[c] EXCEPT !.active = FALSE]
        ELSE challenges[c]]

\* the end of the transaction of r: its locks are released
ReleaseLocks(r) ==
    /\ sentinel' = IF sentinel.owner = r THEN [sentinel EXCEPT !.owner = 0]
                   ELSE sentinel
    /\ row_lock' = [c \in ChallengeIds |-> IF row_lock[c] = r THEN 0 ELSE row_lock[c]]

\* a database of MaxChallenges rows with at most one active, with or
\* without the sentinel row; day 1 begins
DailyInit ==
    /\ pc = "off"
    /\ env = [dataDir |-> FALSE, chainstate |-> FALSE, blocks |-> FALSE]
    /\ NotStarted
    /\ call = NoCall
    /\ today = 1
    /\ challenges \in
          {db \in [ChallengeIds -> {Row(FALSE, NoDate), Row(FALSE, 0), Row(TRUE, 0),
                                    Row(TRUE, 1), Row(TRUE, NoDate)}] :
              Cardinality({c \in ChallengeIds : db[c].active}) <= 1}
    /\ sentinel \in {[exists |-> e, owner |-> 0] : e \in BOOLEAN}
    /\ row_lock = [c \in ChallengeIds |-> 0]
    /\ requests = [r \in Clients |-> Idle]
    /\ activated = [c \in ChallengeIds |-> 0]
    /\ guess_rows = <<>>
    /\ session = <<>>
    /\ response = [status |-> 0]

\* lines 31-32: lock the sentinel row, if there is one, and read the date
LockSentinel(r) ==
    /\ requests[r].pc = "idle"
    /\ sentinel.exists => CanLock(sentinel.owner)
    /\ sentinel' = IF sentinel.exists THEN [sentinel EXCEPT !.owner = r] ELSE sentinel
    /\ requests' = [requests EXCEPT ![r] = [Idle EXCEPT !.pc = "select_active",
                                                        !.today = today]]
    /\ UNCHANGED <<today, challenges, row_lock, activated>>
    /\ UNCHANGED <<runVars, call, guessVars>>

\* lines 34-42: the active row, locked; return it if it is of today,
\* deactivate it otherwise
SelectActive(r) ==
    /\ requests[r].pc = "select_active"
    /\ IF \A c \in ChallengeIds : ~challenges[c].active
       THEN /\ requests' = [requests EXCEPT ![r].pc = "select_new"]
            /\ UNCHANGED <<sentinel, row_lock>>
       ELSE \E c \in {d \in ChallengeIds : challenges[d].active} :
               /\ row_lock[c] = 0
               /\ IF challenges[c].active_date = requests[r].today
                  THEN /\ requests' = [requests EXCEPT ![r].pc = "returned",
                                                       ![r].result = c]
                       /\ ReleaseLocks(r)
                  ELSE /\ requests' = [requests EXCEPT ![r].pc = "select_new",
                                                       ![r].active = c]
                       /\ row_lock' = [row_lock EXCEPT ![c] = r]
                       /\ UNCHANGED sentinel
    /\ UNCHANGED <<today, challenges, activated>>
    /\ UNCHANGED <<runVars, call, guessVars>>

\* the request of r raises: the transaction is rolled back
Raise(r, error) ==
    /\ requests' = [requests EXCEPT ![r].pc = "failed", ![r].error = error]
    /\ UNCHANGED <<challenges, activated>>

\* lines 46-66: pick a challenge never used, activate it, save the sentinel
Activate(r) ==
    /\ requests[r].pc = "select_new"
    /\ IF \A c \in ChallengeIds : ~IsCandidate(View(r)[c])
       THEN Raise(r, "RuntimeError")
       ELSE \E c \in {d \in ChallengeIds : IsCandidate(View(r)[d])} :
               IF ~sentinel.exists
               THEN Raise(r, "AttributeError")
               ELSE /\ challenges' = [View(r) EXCEPT
                                         ![c] = Row(TRUE, requests[r].today)]
                    /\ activated' = [activated EXCEPT ![c] = @ + 1]
                    /\ requests' = [requests EXCEPT ![r].pc = "returned",
                                                    ![r].result = c]
    /\ ReleaseLocks(r)
    /\ UNCHANGED today
    /\ UNCHANGED <<runVars, call, guessVars>>

\* the response is sent
Finish(r) ==
    /\ requests[r].pc \in {"returned", "failed"}
    /\ requests' = [requests EXCEPT ![r] = Idle]
    /\ UNCHANGED <<today, challenges, sentinel, row_lock, activated>>
    /\ UNCHANGED <<runVars, call, guessVars>>

\* the date changes
Midnight ==
    /\ today < MaxDay
    /\ today' = today + 1
    /\ UNCHANGED <<challenges, sentinel, row_lock, requests, activated>>
    /\ UNCHANGED <<runVars, call, guessVars>>

DailyNext ==
    \/ \E r \in Clients : LockSentinel(r)
    \/ \E r \in Clients : SelectActive(r)
    \/ \E r \in Clients : Activate(r)
    \/ \E r \in Clients : Finish(r)
    \/ Midnight

DailySpec == DailyInit /\ [][DailyNext]_vars

----------------------------------------------------------------------------
(* backend/game/views.py: GuessViewSet.create, one request of one client.   *)
(* The public key stored with the challenge is taken to be well formed.     *)

\* settings.MAX_GUESSES
MAX_GUESSES == 2

\* the response and the effects of create() when it does nothing
Rejected(status) ==
    [status |-> status, counted |-> FALSE, created |-> FALSE,
     evaluate_key |-> FALSE, verify |-> FALSE]

\* create() with "guesses > settings.MAX_GUESSES" as the test of line 115
GuessOutcome_LimitOffByOne(throttled, valid, count, exists, active, key_ok) ==
    IF throttled THEN Rejected(429)
    ELSE IF ~valid THEN Rejected(400)
    ELSE IF count > MAX_GUESSES THEN Rejected(403)
    ELSE IF ~exists THEN [Rejected(404) EXCEPT !.counted = TRUE]
    ELSE IF ~active THEN [Rejected(403) EXCEPT !.counted = TRUE]
    ELSE [status |-> IF key_ok THEN 201 ELSE 500, counted |-> TRUE,
          created |-> TRUE, evaluate_key |-> TRUE, verify |-> TRUE]

\* create(): the throttle of the view (429), serializer.is_valid (400),
\* enforce_guess_limit (403), perform_create: get_object_or_404 (404), the
\* active test (403), serializer.save, evaluate_key, verify.  verify raises
\* on a key that is no curve point (500), after the row was saved.
GuessOutcome(throttled, valid, count, exists, active, key_ok) ==
    IF throttled THEN Rejected(429)
    ELSE IF ~valid THEN Rejected(400)
    ELSE IF count >= MAX_GUESSES THEN Rejected(403)
    ELSE IF ~exists THEN [Rejected(404) EXCEPT !.counted = TRUE]
    ELSE IF ~active THEN [Rejected(403) EXCEPT !.counted = TRUE]
    ELSE [status |-> IF key_ok THEN 201 ELSE 500, counted |-> TRUE,
          created |-> TRUE, evaluate_key |-> TRUE, verify |-> TRUE]

\* the uuids a request can name: the rows and one uuid of no row
Uuids == ChallengeIds \cup {NoChallenge}

\* a database with at most one active challenge, no guess yet
GuessInit ==
    /\ pc = "off"
    /\ env = [dataDir |-> FALSE, chainstate |-> FALSE, blocks |-> FALSE]
    /\ NotStarted
    /\ call = NoCall
    /\ today = 1
    /\ challenges \in
          {db \in [ChallengeIds -> {Row(FALSE, NoDate), Row(FALSE, 0), Row(TRUE, 1)}] :
              Cardinality({c \in ChallengeIds : db[c].active}) <= 1}
    /\ sentinel = [exists |-> TRUE, owner |-> 0]
    /\ row_lock = [c \in ChallengeIds |-> 0]
    /\ requests = [r \in Clients |-> Idle]
    /\ activated = [c \in ChallengeIds |-> 0]
    /\ guess_rows = [c \in ChallengeIds |-> 0]
    /\ session = [u \in Uuids |-> 0]
    /\ response = [status |-> 0]

\* serializer.is_valid: the fields are well formed and "challenge" names a
\* row of Challenge.objects.filter(active=True)
IsValid(body_ok, body_challenge) ==
    /\ body_ok
    /\ body_challenge \in ChallengeIds
    /\ challenges[body_challenge].active

\* what the request for the challenge url did, and what it found
Respond(url, valid, o) ==
    [status |-> o.status, challenge |-> url, valid |-> valid,
     exists |-> url \in ChallengeIds,
     active |-> url \in ChallengeIds /\ challenges[url].active,
     counted |-> o.counted, created |-> o.created,
     evaluate_key |-> o.evaluate_key, verify |-> o.verify]

\* the effects of create() with outcome o
ApplyGuess(url, valid, o) ==
    /\ session' = IF o.counted THEN [session EXCEPT ![url] = @ + 1] ELSE session
    /\ guess_rows' = IF o.created THEN [guess_rows EXCEPT ![url] = @ + 1]
                     ELSE guess_rows
    /\ response' = Respond(url, valid, o)

\* POST of a guess for the challenge url of the route; the body names a
\* challenge too (the serializer field "challenge")
SubmitGuess ==
    /\ \E url \in Uuids, body_challenge \in Uuids, body_ok \in BOOLEAN,
          key_ok \in BOOLEAN, throttled \in BOOLEAN :
          ApplyGuess(url, IsValid(body_ok, body_challenge),
                     GuessOutcome(throttled,
                                  IsValid(body_ok, body_challenge), session[url],
                                  url \in ChallengeIds,
                                  url \in ChallengeIds /\ challenges[url].active,
                                  key_ok))
    /\ UNCHANGED <<runVars, call, dailyVars>>

GuessNext == SubmitGuess

GuessSpec == GuessInit /\ [][GuessNext]_vars

----------------------------------------------------------------------------
(* Properties *)

ScanOver == pc \in {"reconcile", "save_to_file", "done"}

\* the address an index entry pays a non-zero amount to, or <<>>
PaidAddress(kv) ==
    IF Len(kv[1]) >= 33 /\ kv[1][1] = TAG_C /\ decode_utxo_value(kv[2]).amount # 0
    THEN extract_address_from_script(decode_utxo_value(kv[2]).script)[1]
    ELSE <<>>

\* the sum of the amounts the first n entries of lg pay to address a
RECURSIVE SumFor(_, _, _)
SumFor(lg, n, a) ==
    IF n = 0 THEN 0
    ELSE SumFor(lg, n - 1, a)
         + (IF PaidAddress(lg[n]) = a THEN decode_utxo_value(lg[n][2]).amount ELSE 0)

\* a key that is no UTXO key: too short for tag and transaction id, or
\* another tag byte
BadKey(key) == Len(key) < 33 \/ key[1] # TAG_C

\* the records the run holds: the scan's dict, the result, the document
AllRecords ==
    {addresses[a] : a \in DOMAIN addresses}
        \cup {never_spent[a] : a \in DOMAIN never_spent}
        \cup (IF output.written
              THEN {output.addresses[a] : a \in DOMAIN output.addresses} ELSE {})

\* the indices of the files on disk before the first missing one
FilesBeforeGap ==
    {i \in 0..(Len(hist.disk) - 1) : \A j \in 0..i : hist.disk[j + 1]}

\* C1: no address of the never-spent result is in the spent-address set
\* that scan_spending_history returned.
C1_NeverSpentDisjointFromSpent ==
    ScanOver => (DOMAIN never_spent) \cap spent_addresses = {}

C1_Witness ==
    /\ pc = "done"
    /\ never_spent # <<>>
    /\ \E a \in DOMAIN addresses : a \in spent_addresses

\* C2: during the index scan and in the final result, the balance of every
\* record is the sum of the amounts of the entries iterated so far that have
\* a UTXO key, a non-zero amount and a script classified to its address, and
\* it is not negative.
C2_BalanceIsSumOfAmounts ==
    /\ \A a \in DOMAIN addresses :
          /\ addresses[a].balance = SumFor(log, Len(log), a)
          /\ addresses[a].balance >= 0
    /\ \A a \in DOMAIN never_spent :
          /\ never_spent[a].balance = SumFor(log, Len(log), a)
          /\ never_spent[a].balance >= 0

C2_Witness ==
    /\ pc = "done"
    /\ Len(log) = 2
    /\ log[1] # log[2]
    /\ \E a \in DOMAIN never_spent :
          /\ PaidAddress(log[1]) = a
          /\ PaidAddress(log[2]) = a
          /\ never_spent[a].balance = decode_utxo_value(log[1][2]).amount
                                      + decode_utxo_value(log[2][2]).amount

\* C3: every record with is_unspent has a positive balance, in the scan's
\* dict, in the result and in the document, and every record was created
\* by an entry of non-zero amount.
C3_UnspentHasPositiveBalance ==
    /\ \A r \in AllRecords : r.is_unspent => r.balance > 0
    /\ \A a \in DOMAIN addresses : \E i \in 1..Len(log) : PaidAddress(log[i]) = a

C3_Witness ==
    /\ pc = "done"
    /\ output.written
    /\ output.addresses # <<>>
    /\ \E i \in 1..Len(log) :
          /\ ~BadKey(log[i][1])
          /\ decode_utxo_value(log[i][2]).amount = 0
          /\ extract_address_from_script(decode_utxo_value(log[i][2]).script)[1] # <<>>

\* C4: a frame with valid magic whose declared length exceeds the bytes
\* left ends its file without an exception leaving parse_block_file, and
\* the addresses and keys collected up to that frame are in what
\* scan_spending_history returns.
C4_TruncatedFrameKeepsResults ==
    /\ pc # "error"
    /\ ScanOver =>
          /\ hist.preTruncSpent \subseteq spent_addresses
          /\ \A a \in DOMAIN hist.preTruncKeys :
                /\ a \in DOMAIN address_pubkeys
                /\ address_pubkeys[a] = hist.preTruncKeys[a]

C4_Witness ==
    /\ pc = "reconcile"
    /\ hist.opened = <<0>>
    /\ hist.preTruncSpent # {}
    /\ DOMAIN hist.preTruncKeys # {}

\* C5: once a field walk has moved the position beyond the payload, or a
\* CompactSize read has consumed zero bytes, no further transaction of the
\* block is parsed and no further input script of it is classified.
C5_OverrunAbortsBlock == ~hist.lateTx /\ ~hist.lateClassified

\* C6: an index entry whose key is no UTXO key changes no record and does
\* not end the scan, and every entry iterated that pays to an address has
\* that address recorded, whatever was iterated before it.
C6_BadKeySkippedScanContinues ==
    /\ [][(pc = "get_all_utxos" /\ Len(log') = Len(log) + 1 /\ BadKey(Last(log')[1]))
             => (addresses' = addresses /\ pc' = "get_all_utxos")]_vars
    /\ [](\A i \in 1..Len(log) :
             PaidAddress(log[i]) # <<>> => PaidAddress(log[i]) \in DOMAIN addresses)

C6_Witness ==
    /\ Len(log) = 2
    /\ BadKey(log[1][1])
    /\ PaidAddress(log[2]) # <<>>
    /\ PaidAddress(log[2]) \in DOMAIN addresses

\* C7 as stated: when the scan is over, exactly the files before the first
\* missing index have been parsed, in increasing order.
C7_ScanEndsOnlyAtGap ==
    ScanOver =>
        /\ Len(hist.opened) = Cardinality(FilesBeforeGap)
        /\ \A k \in 1..Len(hist.opened) : hist.opened[k] = k - 1

\* C7 amended: files are parsed in increasing order from 0 without a skip,
\* only files before the first missing index are opened, and when the scan
\* is over every file before the gap has been parsed unless the
\* blocks_processed counter has reached max_blocks.
C7_OrderedPrefixUntilGapOrLimit ==
    /\ \A k \in 1..Len(hist.opened) :
          hist.opened[k] = k - 1 /\ hist.opened[k] \in FilesBeforeGap
    /\ ScanOver =>
          \/ Len(hist.opened) = Cardinality(FilesBeforeGap)
          \/ blocks_processed >= MAX_BLOCKS

C7_Witness ==
    /\ pc = "reconcile"
    /\ hist.opened = <<0>>
    /\ FilesBeforeGap = {0, 1}
    /\ blocks_processed >= MAX_BLOCKS

\* C8: with the index store directory or the block-storage directory
\* missing, no index entry is read, no block file is parsed and no result
\* is produced.
C8_MissingDirectoryAborts ==
    (~env.chainstate \/ ~env.blocks) =>
        /\ log = <<>>
        /\ hist.opened = <<>>
        /\ pc \notin {"save_to_file", "done"}
        /\ ~output.written

C10_InterruptWritesPartialOutput ==
    (interrupted /\ pc = "killed") =>
        /\ output.written
        /\ output.name # OUTPUT_FILE
        /\ output.addresses = addresses

----------------------------------------------------------------------------
(* Reconciliation: order of the index, has_spent, the key fields *)

\* the orderings of the entries of lg
Orderings(lg) ==
    {[i \in 1..Len(lg) |-> lg[p[i]]] :
        p \in {q \in [1..Len(lg) -> 1..Len(lg)] :
                  \A i, j \in 1..Len(lg) : q[i] = q[j] => i = j}}

\* the same addresses with equal balance, key and flags
SameResult(r1, r2) ==
    /\ DOMAIN r1 = DOMAIN r2
    /\ \A a \in DOMAIN r1 :
          /\ r1[a].balance = r2[a].balance
          /\ r1[a].public_key = r2[a].public_key
          /\ r1[a].is_unspent = r2[a].is_unspent
          /\ r1[a].has_spent = r2[a].has_spent

Reconciled == pc \in {"save_to_file", "done"}

\* C11: the never-spent records of a run equal, in addresses, balance,
\* public_key, is_unspent and has_spent, those that collect_addresses yields
\* for every other ordering of the same index entries with the same result
\* of the block scan.
C11_OrderIndependent ==
    Reconciled =>
        \A o \in Orderings(log) :
            SameResult(never_spent,
                       FilterNeverSpent(get_all_utxos(o, Len(o)),
                                        spent_addresses, address_pubkeys))

\* C12: after reconciliation every record of the index scan whose address
\* is in the spent-address set has has_spent = TRUE and is not in the result.
C12_SpentRecordMarkedAndExcluded ==
    Reconciled =>
        \A a \in DOMAIN addresses :
            a \in spent_addresses =>
                /\ addresses[a].has_spent
                /\ a \notin DOMAIN never_spent

----------------------------------------------------------------------------
(* Key formats and script classification *)

\* the text is the lower-case hex of 33 bytes with prefix 0x02 or 0x03
IsCompressedKeyText(h) ==
    /\ Len(h) = 66
    /\ \A i \in 1..66 : h[i] \in 0..15
    /\ h[1] = 0
    /\ h[2] \in {2, 3}

\* the text is the lower-case hex of 65 bytes with prefix 0x04
IsUncompressedKeyText(h) ==
    /\ Len(h) = 130
    /\ \A i \in 1..130 : h[i] \in 0..15
    /\ h[1] = 0
    /\ h[2] = 4

\* the value of the 64 hex digits of h from position i on, modulo m
HexValueMod(h, i, m) == BigEndianMod(SubSeq(FromHex(h), (i + 1) \div 2, (i + 63) \div 2), m, 0)

\* the uncompressed key text h satisfies y^2 = x^3 + 7 in the field
OnCurve(h) ==
    LET x == HexValueMod(h, 3, FIELD_P)
        y == HexValueMod(h, 67, FIELD_P)
    IN  (y * y) % FIELD_P = (x * x * x + 7) % FIELD_P

\* C14: for every compressed key (33 bytes, prefix 0x02 or 0x03, any x),
\* given as the hex text the program uses for keys, compressing the result
\* of uncompress_pubkey gives the key back, also when x is on no point of
\* the curve.
C14_CompressOfUncompressIsIdentity ==
    (call.fn = "uncompress_pubkey" /\ IsCompressedKeyText(call.arg)) =>
        /\ IsUncompressedKeyText(call.result)
        /\ compress_pubkey(call.result) = call.arg

C14_Witness ==
    /\ call.fn = "uncompress_pubkey"
    /\ IsCompressedKeyText(call.arg)
    /\ call.arg[2] = 3
    /\ IsUncompressedKeyText(call.result)
    /\ ~OnCurve(call.result)
    /\ compress_pubkey(call.result) = call.arg

\* C15: for a text that is neither a compressed nor an uncompressed key
\* (wrong length, wrong prefix, not hexadecimal), compress_pubkey and
\* uncompress_pubkey return the empty string.
C15_InvalidKeyGivesEmpty ==
    (/\ call.fn \in {"compress_pubkey", "uncompress_pubkey"}
     /\ ~IsCompressedKeyText(call.arg)
     /\ ~IsUncompressedKeyText(call.arg)) =>
        call.result = <<>>

\* the script is 0x76 0xa9 0x14 <20 bytes> 0x88 0xac
IsP2PKHForm(s) ==
    /\ Len(s) = 25
    /\ SubSeq(s, 1, 3) = <<118, 169, 20>>
    /\ SubSeq(s, 24, 25) = <<136, 172>>

\* C16: a script of exactly 25 bytes 0x76 0xa9 0x14 <20 bytes h> 0x88 0xac
\* is classified as (Base58Check(0x00, h), ""), and no script of another
\* length is classified with an address and an empty public key.
C16_P2PKHClassification ==
    call.fn = "extract_address_from_script" =>
        /\ IsP2PKHForm(call.arg) =>
              call.result = <<Base58Check(SubSeq(call.arg, 4, 23)), <<>>>>
        /\ Len(call.arg) # 25 =>
              ~(call.result[1] # <<>> /\ call.result[2] = <<>>)

C16_Witness ==
    /\ call.fn = "extract_address_from_script"
    /\ IsP2PKHForm(call.arg)
    /\ SubSeq(call.arg, 4, 23) = [i \in 1..20 |-> 10 * i]
    /\ call.result[1] # <<>>
    /\ call.result[2] = <<>>

\* the script is one push of a compressed or uncompressed key encoding,
\* then CHECKSIG
IsP2PKForm(s) ==
    /\ Len(s) \in {35, 67}
    /\ s[1] = Len(s) - 2
    /\ s[Len(s)] = 172
    /\ \/ Len(s) = 35 /\ s[2] \in {2, 3}
       \/ Len(s) = 67 /\ s[2] = 4

\* C17: a script is classified with an address and a public key exactly
\* when it is one push of 33 bytes with first byte 0x02/0x03, or of 65
\* bytes with first byte 0x04, followed by CHECKSIG, and the public key is
\* then the hex of the pushed bytes; a push with another first byte gives
\* ("", "").
C17_P2PKOnlyForValidKeys ==
    call.fn = "extract_address_from_script" =>
        /\ IsP2PKForm(call.arg) =>
              /\ call.result[1] # <<>>
              /\ call.result[2] = Hex(SubSeq(call.arg, 2, Len(call.arg) - 1))
        /\ ~IsP2PKForm(call.arg) => call.result[2] = <<>>
        /\ (~IsP2PKForm(call.arg) /\ ~IsP2PKHForm(call.arg)) =>
              call.result = <<<<>>, <<>>>>

----------------------------------------------------------------------------
(* The daily challenge *)

\* request r returns in this step
Returns(r) == requests[r].pc # "returned" /\ requests'[r].pc = "returned"

\* C18: when a daily-challenge request returns, exactly one challenge is
\* active, it is the one returned and its active_date is the date the
\* request read; so no challenge of another date stays active.  The
\* database starts with at most one active challenge and the requests
\* interleave in every way the locks allow.
C18_OneActiveDatedToday ==
    [][\A r \in Clients :
          Returns(r) =>
              /\ {c \in ChallengeIds : challenges'[c].active} = {requests'[r].result}
              /\ challenges'[requests'[r].result].active_date = requests'[r].today]_vars

C18_Witness ==
    /\ requests[1].pc = "returned"
    /\ requests[2].pc = "returned"
    /\ requests[1].active # NoChallenge
    /\ requests[1].result # requests[1].active
    /\ ~challenges[requests[1].active].active
    /\ activated[requests[1].result] = 1
    /\ requests[2].active = NoChallenge
    /\ requests[2].result = requests[1].result
    /\ requests[2].today = requests[1].today

\* C20: a challenge is activated only when, for the transaction that
\* activates it, it has active = false and active_date = null; no challenge
\* is activated twice; and a request that finds no such challenge fails
\* with RuntimeError, leaving the rows as they were.
C20_ActivatesOnlyUnused ==
    /\ [][\A c \in ChallengeIds :
             activated'[c] # activated[c] =>
                 \E r \in Clients :
                     /\ Returns(r)
                     /\ requests'[r].result = c
                     /\ ~View(r)[c].active
                     /\ View(r)[c].active_date = NoDate]_vars
    /\ [](\A c \in ChallengeIds : activated[c] <= 1)
    /\ [][\A r \in Clients :
             (/\ requests[r].pc = "select_new"
              /\ requests'[r] # requests[r]
              /\ \A c \in ChallengeIds :
                    View(r)[c].active \/ View(r)[c].active_date # NoDate) =>
                 /\ requests'[r].pc = "failed"
                 /\ requests'[r].error = "RuntimeError"
                 /\ challenges' = challenges
                 /\ activated' = activated]_vars

C20_Witness ==
    /\ requests[1].pc = "failed"
    /\ requests[1].error = "RuntimeError"
    /\ requests[1].active # NoChallenge
    /\ challenges[requests[1].active].active
    /\ \E c \in ChallengeIds : activated[c] = 1

----------------------------------------------------------------------------
(* The guess endpoint *)

\* the last request named a challenge that exists and is not active
ForInactive == response.status # 0 /\ response.exists /\ ~response.active

\* C19: a guess for a challenge that is not active is answered with 403
\* (permission denied), no Guess row is created and evaluate_key and verify
\* do not run.
C19_InactiveChallengeForbidden ==
    ForInactive =>
        /\ response.status = 403
        /\ ~response.created
        /\ ~response.evaluate_key
        /\ ~response.verify

----------------------------------------------------------------------------
(* Block walk: coinbase, unlocking scripts, CompactSize *)

\* C21: the unlocking script of the first transaction of a block is never
\* classified: a block whose only transaction is the coinbase adds no
\* address, and for a block with more transactions the spent addresses and
\* the key map are those of the same block with the coinbase script
\* replaced by zeros, whatever bytes the script holds.
C21_CoinbaseNeverClassified ==
    call.fn = "parse_block_data" =>
        \A cb \in CoinbaseScripts, rest \in SpendUniverse :
            call.arg = BlockOf(cb, rest) =>
                /\ rest.n = 1 => (call.result.spent = {} /\ call.result.pubkeys = <<>>)
                /\ call.result.spent =
                       parse_block_data(BlockOf(Rep(0, Len(cb)), rest), {}, <<>>).spent
                /\ call.result.pubkeys =
                       parse_block_data(BlockOf(Rep(0, Len(cb)), rest), {}, <<>>).pubkeys

\* a coinbase with the script <signature> <PK2>, followed by a spend of PK1:
\* only the address of PK1 is recorded
C21_Witness ==
    /\ call.fn = "parse_block_data"
    /\ call.arg = BlockOf(SigScript(PK2), [n |-> 2, bytes |-> Tx(SigScript(PK1))])
    /\ extract_pubkey_from_scriptsig(SigScript(PK2)) = Hex(PK2)
    /\ call.result.spent = {pubkey_to_address(Hex(PK1))}
    /\ DOMAIN call.result.pubkeys = {pubkey_to_address(Hex(PK1))}

\* the element is a push of 33 bytes with prefix 0x02/0x03 or of 65 bytes
\* with prefix 0x04
IsKeyElement(e) ==
    /\ e.data
    /\ \/ Len(e.bytes) = 33 /\ e.bytes[1] \in {2, 3}
       \/ Len(e.bytes) = 65 /\ e.bytes[1] = 4

\* C22 as stated: the last element of an unlocking script is returned as
\* hex whenever it is 33 bytes with prefix 0x02/0x03 or 65 bytes with prefix
\* 0x04, whatever the number of elements before it; every other script
\* gives "".
C22_LastElementWhateverPrecedes ==
    call.fn = "extract_pubkey_from_scriptsig" =>
        /\ \A es \in ElementLists :
              call.arg = Encode(es) =>
                  call.result = IF es # <<>> /\ IsKeyElement(Last(es))
                                THEN Hex(Last(es).bytes) ELSE <<>>
        /\ call.arg \in CutScripts => call.result = <<>>

\* C22: the last element of an unlocking script is returned as hex whenever
\* at least one element precedes it and it is 33 bytes with prefix
\* 0x02/0x03 or 65 bytes with prefix 0x04; every other script, also one
\* whose element iteration raises, gives "".
C22_LastElementOfTwoOrMore ==
    call.fn = "extract_pubkey_from_scriptsig" =>
        /\ \A es \in ElementLists :
              call.arg = Encode(es) =>
                  call.result = IF Len(es) >= 2 /\ IsKeyElement(Last(es))
                                THEN Hex(Last(es).bytes) ELSE <<>>
        /\ call.arg \in CutScripts => call.result = <<>>

\* four elements, the last an uncompressed key pushed after an 80-byte push
C22_Witness ==
    /\ call.fn = "extract_pubkey_from_scriptsig"
    /\ call.arg = Encode(<<Data(<<48, 1>>), Data(Rep(2, 33)), Data(Rep(9, 80)),
                           Data(<<4>> \o Rep(7, 64))>>)
    /\ call.result = Hex(<<4>> \o Rep(7, 64))

\* every byte of the varint has the continuation flag set: the input ends
\* before a byte with high bit 0
IsCutVarint(b) == Len(b) >= 1 /\ \A i \in 1..Len(b) : b[i] >= 128

\* the entry has a cut varint as its output index or as its amount
HasCutVarint(kv) ==
    \/ Len(kv[1]) > 33 /\ IsCutVarint(SubSeq(kv[1], 34, Len(kv[1])))
    \/ IsCutVarint(kv[2])

\* the entries of lg that have no cut varint, in their order
RECURSIVE WithoutCut(_)
WithoutCut(lg) ==
    IF lg = <<>> THEN <<>>
    ELSE IF HasCutVarint(Head(lg)) THEN WithoutCut(Tail(lg))
    ELSE <<Head(lg)>> \o WithoutCut(Tail(lg))

\* C23: an index entry whose output index or amount is a continuation-bit
\* varint that ends before a byte with high bit 0 is skipped by the index
\* scan: the addresses returned are those of the index without the entry.
C23_CutVarintSkipsRecord ==
    call.fn = "get_all_utxos" =>
        call.result = get_all_utxos(WithoutCut(call.arg), Len(WithoutCut(call.arg)))

\* the value and the size of a whole CompactSize encoding
CompactSizeOf(c) ==
    IF c[1] < 253 THEN [value |-> c[1], size |-> 1]
    ELSE IF c[1] = 253 THEN [value |-> c[2] + 256 * c[3], size |-> 3]
    ELSE IF c[1] = 254
    THEN [value |-> c[2] + 256 * c[3] + 65536 * c[4] + 16777216 * c[5], size |-> 5]
    ELSE [value |-> c[2] + 256 * (c[3] + 256 * (c[4] + 256 * (c[5] + 256 * (c[6]
                       + 256 * (c[7] + 256 * (c[8] + 256 * c[9])))))),
          size |-> 9]

\* C24: read_varint at any position returns (first byte, 1) for a first
\* byte below 0xfd, and for 0xfd, 0xfe, 0xff the little-endian value of the
\* next 2, 4, 8 bytes with 3, 5, 9 bytes consumed; when fewer bytes remain
\* than the form requires, or the position is at or past the end, it
\* returns zero bytes consumed.
C24_ReadVarintCompactSize ==
    call.fn = "read_varint" =>
        /\ \A pad \in Paddings, c \in CompactSizes, tail \in {<<>>, <<7>>, Rep(255, 9)} :
              call.arg = [data |-> pad \o c \o tail, pos |-> Len(pad)] =>
                  call.result = CompactSizeOf(c)
        /\ \A pad \in Paddings, c \in CutCompactSizes :
              call.arg = [data |-> pad \o c, pos |-> Len(pad)] =>
                  call.result.size = 0
        /\ call.arg.pos >= Len(call.arg.data) => call.result.size = 0

\* the four-byte form read at position 2, followed by another byte
C24_Witness ==
    /\ call.fn = "read_varint"
    /\ call.arg = [data |-> <<9, 254, 254, 255, 255, 255, 127, 7>>, pos |-> 2]
    /\ call.result = [value |-> 2147483647, size |-> 5]

----------------------------------------------------------------------------
(* Decompression *)

\* a is a square in the field
IsResidue(a) == \E r \in 0..(FIELD_P - 1) : (r * r) % FIELD_P = a

\* (x^3 + 7) mod p for the x of the compressed key text h
CurveRhs(h) ==
    (ModPow(HexValueMod(h, 3, FIELD_P), 3, FIELD_P) + 7) % FIELD_P

\* the y of an uncompressed key whose y has 31 leading zero bytes
LowY(h) == FromHex(h)[65]

\* C25: for a 33-byte key with prefix 0x02/0x03 and x-coordinate x,
\* uncompress_pubkey returns 0x04, x, y with y in [0, p], y of the parity
\* the prefix requires (0x02 even, 0x03 odd) and, whenever x^3 + 7 is a
\* quadratic residue modulo p, y*y mod p = (x^3 + 7) mod p; a 65-byte key
\* with prefix 0x04 is returned unchanged.
C25_UncompressGivesRootOfParity ==
    call.fn = "uncompress_pubkey" =>
        /\ IsCompressedKeyText(call.arg) =>
              /\ IsUncompressedKeyText(call.result)
              /\ SubSeq(call.result, 3, 66) = SubSeq(call.arg, 3, 66)
              /\ SubSeq(FromHex(call.result), 34, 64) = Rep(0, 31)
              /\ LowY(call.result) \in 0..FIELD_P
              /\ LowY(call.result) % 2 = (IF call.arg[2] = 2 THEN 0 ELSE 1)
              /\ IsResidue(CurveRhs(call.arg)) =>
                    (LowY(call.result) * LowY(call.result)) % FIELD_P
                        = CurveRhs(call.arg)
        /\ IsUncompressedKeyText(call.arg) => call.result = call.arg

\* a key with prefix 0x03 on the curve whose computed root was even, so
\* that p - y is returned
C25_Witness ==
    /\ call.fn = "uncompress_pubkey"
    /\ IsCompressedKeyText(call.arg)
    /\ call.arg[2] = 3
    /\ IsResidue(CurveRhs(call.arg))
    /\ CurveRhs(call.arg) # 0
    /\ call.result # uncompress_pubkey_NoParity(call.arg)
    /\ (LowY(call.result) * LowY(call.result)) % FIELD_P = CurveRhs(call.arg)

----------------------------------------------------------------------------
(* The guess limit of a session *)

\* the count of the session, before the step, for the challenge the
\* request of the step names
CountBefore == session[response'.challenge]

C30_RejectedGuessKeepsCount ==
    [][(/\ response'.valid
        /\ response'.status \in {403, 404}
        /\ ~(response'.exists /\ response'.active)) =>
           session'[response'.challenge] = session[response'.challenge]]_vars

----------------------------------------------------------------------------
(* The block scan and the reconciliation as a whole *)

\* C27: at every point of the block scan every key of the
\* address-to-public-key map is in the spent-address set, in the sets of the
\* file being parsed and in the merged ones; so reconciliation finds no map
\* entry for an address it keeps, and public_key_compressed and
\* public_key_uncompressed are empty in every final record.
C27_KeyedAddressesAreSpent ==
    /\ DOMAIN address_pubkeys \subseteq spent_addresses
    /\ fileState.open =>
          DOMAIN fileState.addr_pubkeys \subseteq fileState.spent_addrs
    /\ Reconciled =>
          \A a \in DOMAIN never_spent :
              /\ a \notin DOMAIN address_pubkeys
              /\ never_spent[a].public_key_compressed = <<>>
              /\ never_spent[a].public_key_uncompressed = <<>>

\* a run in which the block scan recorded the key of an indexed address,
\* and another indexed address was kept
C27_Witness ==
    /\ Reconciled
    /\ \E a \in DOMAIN addresses : a \in DOMAIN address_pubkeys
    /\ \E a \in DOMAIN never_spent : never_spent[a].public_key_compressed = <<>>

\* C28: over a whole run of scan_spending_history the number of block
\* frames parsed, all block files together, never exceeds max_blocks.
C28_FramesWithinMaxBlocks == hist.frames <= MAX_BLOCKS

\* C29: reconciliation is an exact set difference that changes no balance:
\* the result holds every record of the index scan whose address is not in
\* the spent-address set and no other address, each with the address and
\* the balance it had at the end of the index scan.
C29_ExactDifferenceSameBalance ==
    Reconciled =>
        /\ DOMAIN never_spent =
              DOMAIN get_all_utxos(log, Len(log)) \ spent_addresses
        /\ \A a \in DOMAIN never_spent :
              /\ never_spent[a].address = a
              /\ never_spent[a].balance = get_all_utxos(log, Len(log))[a].balance

\* the index scan found a spent address, which is left out, and one that
\* was not spent, which is returned with its balance of 200
C29_Witness ==
    /\ Reconciled
    /\ DOMAIN addresses \cap spent_addresses # {}
    /\ DOMAIN never_spent # DOMAIN addresses
    /\ \E a \in DOMAIN never_spent : never_spent[a].balance = 200

====
